---- MODULE Spec2Model ----
(***************************************************************************)
(* Model of iambrowser's lazily loaded, filterable tree                    *)
(* (src/iambrowser/tree.py, src/iambrowser/app.py).                        *)
(*                                                                         *)
(* Names are sequences of characters so that Python's `text in name` is    *)
(* a real substring test.  A node and the Entry it owns are one record.    *)
(***************************************************************************)
EXTENDS Integers, Sequences, FiniteSets, TLC

VARIABLES nodes, text, remote, flist, lastOp, calls, emitted

vars == <<nodes, text, remote, flist, lastOp, calls, emitted>>

----------------------------------------------------------------------------
(* Bounds *)

\* upper bound on the size of the node registry (IamTree._nodes)
MaxNodes == 7

\* upper bound on the length of a stand-alone FilteredList's original
MaxLen == 3

----------------------------------------------------------------------------
(* Values *)

NoNode == 0
NoText == <<"<none>">>
NoDoc == <<"<nodoc>">>

\* characters of names and filter texts
nA == <<"x", "A", "d">>
nR == <<"d", "A">>
nAlice == <<"a", "l">>
nProd == <<"p", "r">>
nDev == <<"d", "e">>
nUsers == <<"u", "s", "e", "r", "s">>
nRoles == <<"r", "o", "l", "e", "s">>

\* values of the search box
Texts == {<<>>, <<"A", "d">>}

\* a test for a prefix in place of `in`
Contains_prefix(n, t) ==
  Len(t) <= Len(n) /\ SubSeq(n, 1, Len(t)) = t

\* `filtering_text in node.data.name` (tree.py:226): contiguous substring
Contains(n, t) ==
  \E i \in 0..(Len(n) - Len(t)) : SubSeq(n, i + 1, i + Len(t)) = t

\* json.dumps(value, indent=2) (tree.py:73, tree.py:101) of a JSON object
\* given as its sequence of keys: one line per key, indented by two, a
\* comma after every line but the last; the empty object is "{}".
Dumps(j) ==
  IF j = <<>> THEN <<"{}">>
  ELSE <<"{">> \o
       [i \in 1..Len(j) |->
          <<"  ", j[i], IF i < Len(j) THEN "," ELSE "">>] \o
       <<"}">>

----------------------------------------------------------------------------
(* FilteredList (tree.py:17-39).  A children value is either a plain list  *)
(* (wrapped = FALSE, only data is meaningful) or a FilteredList.           *)

\* Entry.is_filterable and its overrides (tree.py:43, 68, 84, 108, 128)
is_filterable(kind) == kind \in {"inline", "attached", "role", "user"}

PlainList(s) == [wrapped |-> FALSE, data |-> s, original |-> <<>>, pred |-> NoText]

\* f also letting through a node that has a child whose name matches
f_withchildren(ns, t, id) ==
  \/ ns[id].kind = "none"
  \/ ~is_filterable(ns[id].kind)
  \/ Contains(ns[id].name, t)
  \/ \E i \in 1..Len(ns[id].children.original) :
        Contains(ns[ns[id].children.original[i]].name, t)

\* f without `if not node.data.is_filterable: return True`
f_nameonly(ns, t, id) ==
  \/ ns[id].kind = "none"
  \/ Contains(ns[id].name, t)

\* the predicate f of filter_node (tree.py:221-228), for filtering text t,
\* applied to node id of the node table ns
f(ns, t, id) ==
  \/ ns[id].kind = "none"
  \/ ~is_filterable(ns[id].kind)
  \/ Contains(ns[id].name, t)

\* [e for e in self.original if predicate(e)] (tree.py:30)
RECURSIVE Filtered(_, _, _)
Filtered(ns, s, t) ==
  IF s = <<>> THEN <<>>
  ELSE (IF f(ns, t, Head(s)) THEN <<Head(s)>> ELSE <<>>) \o Filtered(ns, Tail(s), t)

\* FilteredList.__init__ taking the visible data of the source as original
FL_init_lossy(c) ==
  IF c.wrapped
    THEN [wrapped |-> TRUE, data |-> c.data, original |-> c.data, pred |-> c.pred]
    ELSE [wrapped |-> TRUE, data |-> c.data, original |-> c.data, pred |-> NoText]

\* FilteredList.__init__
FL_init(c) ==
  IF c.wrapped
    THEN [wrapped |-> TRUE, data |-> c.data, original |-> c.original, pred |-> c.pred]
    ELSE [wrapped |-> TRUE, data |-> c.data, original |-> c.data, pred |-> NoText]

\* FilteredList.filter
FL_filter(ns, c, t) ==
  [c EXCEPT !.pred = t, !.data = Filtered(ns, c.original, t)]

\* FilteredList.refilter
FL_refilter(ns, c) ==
  IF c.pred # NoText THEN FL_filter(ns, c, c.pred) ELSE c

\* FilteredList.append
FL_append(ns, c, item) ==
  FL_refilter(ns, [c EXCEPT !.original = Append(c.original, item)])

\* node._children.append(node) on whatever node._children currently is
ChildrenAppend(ns, c, item) ==
  IF c.wrapped THEN FL_append(ns, c, item)
  ELSE [c EXCEPT !.data = Append(c.data, item)]

\* every child the collection holds, hidden or not
Complete(c) == IF c.wrapped THEN c.original ELSE c.data

----------------------------------------------------------------------------
(* The remote identity API reached through boto3.                          *)

\* boto3.Session().available_profiles and settings.IGNORE_PROFILES
available_profiles == <<nProd, nDev>>
IGNORE_PROFILES == {nDev}
Profiles == {nProd, nDev}

\* alice has the inline policy "xAd"; in RemoteB the managed policy "dA"
\* has been attached to her as well
RemoteA ==
  [users    |-> [p \in Profiles |-> IF p = nProd THEN <<nAlice>> ELSE <<>>],
   roles    |-> [p \in Profiles |-> <<>>],
   inline   |-> [p \in {nAlice} |-> <<[name |-> nA, document |-> <<"Version">>]>>],
   attached |-> [p \in {nAlice} |-> <<>>],
   version  |-> <<"Version", "Statement">>]

RemoteB == [RemoteA EXCEPT !.attached[nAlice] = <<nR>>]

RemoteStates == {RemoteA, RemoteB}

----------------------------------------------------------------------------
(* Tree nodes.  nodes[id] is the TreeNode with that id together with the   *)
(* Entry it owns (kind "none": node.data is None; kind "free": no node     *)
(* has this id).  added, runs and fetches are history fields: the children *)
(* added since node._children was last reset, the completed load_children  *)
(* runs and the document fetches since the entry was created or last       *)
(* force-loaded.                                                           *)

NodeIds == 1..MaxNodes

\* a node handed an entry that has been loaded before
NewNode_stale(kind, name, profile, doc) ==
  [kind |-> kind, name |-> name, profile |-> profile,
   is_loaded |-> TRUE, policy_document |-> doc,
   children |-> PlainList(<<>>),
   added |-> <<>>, runs |-> 1, fetches |-> 0]

NewNode(kind, name, profile, doc) ==
  [kind |-> kind, name |-> name, profile |-> profile,
   is_loaded |-> FALSE, policy_document |-> doc,
   children |-> PlainList(<<>>),
   added |-> <<>>, runs |-> 0, fetches |-> 0]

Free == NewNode("free", <<>>, <<>>, NoDoc)

\* IamTree._nodes: the ids in use
Registry(ns) == {i \in DOMAIN ns : ns[i].kind # "free"}

\* node n and everything below it
RECURSIVE Subtree(_, _)
Subtree(ns, n) ==
  {n} \cup UNION {Subtree(ns, Complete(ns[n].children)[i]) :
                    i \in 1..Len(Complete(ns[n].children))}

\* TreeNode.add / add_leaf: register the node under the next id and append
\* it to the parent's children
\* the id the next node gets: the lowest one not in use
NextId(ns) ==
  CHOOSE i \in DOMAIN ns :
    ns[i].kind = "free" /\ \A j \in 1..(i - 1) : ns[j].kind # "free"

\* parent._children.append(node) for the registered node id
Attach(reg, parent, id) ==
  [reg EXCEPT ![parent].children = ChildrenAppend(reg, @, id),
              ![parent].added = Append(@, id)]

AddNode(ns, parent, rec) ==
  Attach([ns EXCEPT ![NextId(ns)] = rec], parent, NextId(ns))

\* Entry constructors (tree.py:45-46, 70-73, 86-88, 110-112, 130-132,
\* 148-151, 162-164); an inline policy serialises its document at once
ProfileEntry(p) == NewNode("profile", p, p, NoDoc)
SectionEntry(name, p) == NewNode("section", name, p, NoDoc)
IamUserEntry(u, p) == NewNode("user", u, p, NoDoc)
IamRoleEntry(r, p) == NewNode("role", r, p, NoDoc)
IamInlinePolicyEntry(pol, p) == NewNode("inline", pol.name, p, Dumps(pol.document))
IamAttachedPolicyEntry(name, p) == NewNode("attached", name, p, NoDoc)

----------------------------------------------------------------------------
(* load_children as the sequence of its steps: a call that may raise, or   *)
(* the addition of one child.                                              *)

NoEntry == NewNode("none", <<>>, <<>>, NoDoc)
CallStep(api, target) == [isCall |-> TRUE, api |-> api, target |-> target, entry |-> NoEntry]
AddStep(entry) == [isCall |-> FALSE, api |-> "add", target |-> entry.name, entry |-> entry]

RECURSIVE Flatten(_)
Flatten(ss) == IF ss = <<>> THEN <<>> ELSE Head(ss) \o Flatten(Tail(ss))

\* load_children of a principal with its two loops swapped
PrincipalSteps_attachedfirst(rem, e) ==
  LET inl == rem.inline[e.name]
      att == rem.attached[e.name]
  IN  <<CallStep("list_attached", e.name)>>
      \o [i \in 1..Len(att) |-> AddStep(IamAttachedPolicyEntry(att[i], e.profile))]
      \o <<CallStep("list_inline", e.name)>>
      \o Flatten([i \in 1..Len(inl) |->
                    <<CallStep("get_inline", inl[i].name),
                      AddStep(IamInlinePolicyEntry(inl[i], e.profile))>>])

\* IamUserEntry.load_children / IamRoleEntry.load_children
PrincipalSteps(rem, e) ==
  LET inl == rem.inline[e.name]
      att == rem.attached[e.name]
  IN  <<CallStep("list_inline", e.name)>>
      \o Flatten([i \in 1..Len(inl) |->
                    <<CallStep("get_inline", inl[i].name),
                      AddStep(IamInlinePolicyEntry(inl[i], e.profile))>>])
      \o <<CallStep("list_attached", e.name)>>
      \o [i \in 1..Len(att) |-> AddStep(IamAttachedPolicyEntry(att[i], e.profile))]

\* SectionEntry.load_children: the closure load_users or load_roles
SectionSteps(rem, e) ==
  IF e.name = nUsers
    THEN <<CallStep("list_users", e.profile)>>
         \o [i \in 1..Len(rem.users[e.profile]) |->
               AddStep(IamUserEntry(rem.users[e.profile][i], e.profile))]
    ELSE <<CallStep("list_roles", e.profile)>>
         \o [i \in 1..Len(rem.roles[e.profile]) |->
               AddStep(IamRoleEntry(rem.roles[e.profile][i], e.profile))]

\* ProfileEntry.load_children listing the users and the roles itself
ProfileSteps_eager(e) ==
  <<CallStep("Session", e.profile),
    CallStep("list_users", e.profile),
    AddStep(SectionEntry(nUsers, e.profile)),
    CallStep("list_roles", e.profile),
    AddStep(SectionEntry(nRoles, e.profile))>>

\* ProfileEntry.load_children
ProfileSteps(e) ==
  <<CallStep("Session", e.profile),
    AddStep(SectionEntry(nUsers, e.profile)),
    AddStep(SectionEntry(nRoles, e.profile))>>

Steps(rem, e) ==
  CASE e.kind = "profile" -> ProfileSteps(e)
    [] e.kind = "section" -> SectionSteps(rem, e)
    [] e.kind \in {"user", "role"} -> PrincipalSteps(rem, e)
    [] OTHER -> <<>>

\* the step at which load_children may raise; 0 is "none does".  Remote
\* calls may raise (creating the session of a listed profile is local),
\* and the one that does is the last, which leaves the most children behind.
LastCalls(steps) ==
  {i \in 1..Len(steps) :
     /\ steps[i].isCall /\ steps[i].api # "Session"
     /\ \A j \in (i + 1)..Len(steps) : ~steps[j].isCall}

FailPoints(rem, e) == {0} \cup LastCalls(Steps(rem, e))

\* the number of children the steps add
RECURSIVE Adds(_)
Adds(steps) ==
  IF steps = <<>> THEN 0
  ELSE (IF Head(steps).isCall THEN 0 ELSE 1) + Adds(Tail(steps))

RECURSIVE RunSteps(_, _, _)
RunSteps(ns, n, steps) ==
  IF steps = <<>> THEN ns
  ELSE RunSteps(IF Head(steps).isCall THEN ns ELSE AddNode(ns, n, Head(steps).entry),
                n, Tail(steps))

RECURSIVE CallsOf(_)
CallsOf(steps) ==
  IF steps = <<>> THEN <<>>
  ELSE (IF Head(steps).isCall
          THEN <<[api |-> Head(steps).api, target |-> Head(steps).target]>>
          ELSE <<>>) \o CallsOf(Tail(steps))

\* load_children(node) with the call at step k raising (k = 0: none):
\* the node table afterwards, whether it returned, and the calls made
\* the steps of load_children run on node n up to the call at step k
Run(ns, n, steps, k) ==
  IF k = 0
    THEN [nodes |-> RunSteps(ns, n, steps), ok |-> TRUE, calls |-> CallsOf(steps)]
    ELSE [nodes |-> RunSteps(ns, n, SubSeq(steps, 1, k - 1)), ok |-> FALSE,
          calls |-> CallsOf(SubSeq(steps, 1, k))]

load_children(ns, rem, n, k) ==
  IF ns[n].kind = "attached"
    THEN \* del self.policy_document: AttributeError when nothing is cached
         IF ns[n].policy_document = NoDoc
           THEN [nodes |-> ns, ok |-> FALSE, calls |-> <<>>]
           ELSE [nodes |-> [ns EXCEPT ![n].policy_document = NoDoc],
                 ok |-> TRUE, calls |-> <<>>]
    ELSE Run(ns, n, Steps(rem, ns[n]), k)

\* the nodes ids and everything below them taken out of the table
RECURSIVE Detach(_, _)
Detach(ns, ids) ==
  IF ids = <<>> THEN ns
  ELSE Detach([ns EXCEPT ![Head(ids)] = Free],
              Tail(ids) \o Complete(ns[Head(ids)].children))

\* the `if force:` branch forgetting to discard the children
Invalidate_keep(ns, n) ==
  [ns EXCEPT ![n].is_loaded = FALSE, ![n].runs = 0, ![n].fetches = 0]

\* `if force:` branch of Entry.load (tree.py:49-51).  The nodes detached
\* by `node._children = []` stay in IamTree._nodes, where nothing but the
\* re-wrapping of filter_node reaches them and nothing reads them; their
\* ids are given back here.
Invalidate(ns, n) ==
  [Detach(ns, Complete(ns[n].children)) EXCEPT
     ![n] = [ns[n] EXCEPT !.children = PlainList(<<>>), !.is_loaded = FALSE,
                          !.added = <<>>, !.runs = 0, !.fetches = 0]]

\* Entry.load setting is_loaded before load_children has returned
load_flagfirst(ns, rem, n, force, k) ==
  LET ns1 == IF force THEN Invalidate(ns, n) ELSE ns IN
  IF ns1[n].is_loaded
    THEN [nodes |-> ns1, ok |-> TRUE, calls |-> <<>>, ran |-> FALSE]
    ELSE LET r == load_children(ns1, rem, n, k) IN
         IF r.ok
           THEN [nodes |-> [r.nodes EXCEPT ![n].is_loaded = TRUE, ![n].runs = IF @ < 2 THEN @ + 1 ELSE @],
                 ok |-> TRUE, calls |-> r.calls, ran |-> TRUE]
           ELSE [nodes |-> [r.nodes EXCEPT ![n].is_loaded = TRUE],
                 ok |-> FALSE, calls |-> r.calls, ran |-> TRUE]

\* Entry.load without `if self.is_loaded: return`
load_noreturn(ns, rem, n, force, k) ==
  LET ns1 == IF force THEN Invalidate(ns, n) ELSE ns
      r == load_children(ns1, rem, n, k)
  IN  IF r.ok
        THEN [nodes |-> [r.nodes EXCEPT ![n].is_loaded = TRUE, ![n].runs = IF @ < 2 THEN @ + 1 ELSE @],
              ok |-> TRUE, calls |-> r.calls, ran |-> TRUE]
        ELSE [nodes |-> r.nodes, ok |-> FALSE, calls |-> r.calls, ran |-> TRUE]

\* `self.is_loaded = True` once load_children, whose outcome is r, has
\* returned; nothing when it has raised
Loaded(n, r) ==
  IF r.ok
    THEN [nodes |-> [r.nodes EXCEPT ![n].is_loaded = TRUE, ![n].runs = IF @ < 2 THEN @ + 1 ELSE @],
          ok |-> TRUE, calls |-> r.calls, ran |-> TRUE]
    ELSE [nodes |-> r.nodes, ok |-> FALSE, calls |-> r.calls, ran |-> TRUE]

\* Entry.load from `if self.is_loaded:` on
LoadFrom(ns1, rem, n, k) ==
  IF ns1[n].is_loaded
    THEN [nodes |-> ns1, ok |-> TRUE, calls |-> <<>>, ran |-> FALSE]
    ELSE Loaded(n, load_children(ns1, rem, n, k))

\* Entry.load(node, force) (tree.py:48-55): ran tells whether
\* load_children was invoked
load(ns, rem, n, force, k) ==
  LoadFrom(IF force THEN Invalidate(ns, n) ELSE ns, rem, n, k)

----------------------------------------------------------------------------
(* IamTree and IamBrowser handlers                                         *)

\* the nodes an event or the cursor can name
Ids == Registry(nodes)

\* the isinstance test of on_tree_node_selected left out
IsPolicy_any(kind) == kind # "none"

\* isinstance(entry, (IamInlinePolicyEntry, IamAttachedPolicyEntry))
IsPolicy(kind) == kind \in {"inline", "attached"}

\* IamTree.load_profiles on the root (tree.py:195-201)
RECURSIVE load_profiles(_, _, _)
load_profiles(ns, profiles, ignore) ==
  IF profiles = <<>> THEN ns
  ELSE load_profiles(IF Head(profiles) \in ignore THEN ns
                     ELSE AddNode(ns, 1, ProfileEntry(Head(profiles))),
                     Tail(profiles), ignore)

\* IamTree.filter_node (tree.py:220-233)
filter_node(ns, t) ==
  [i \in DOMAIN ns |->
     IF ns[i].kind = "free" THEN ns[i]
     ELSE [ns[i] EXCEPT !.children = FL_filter(ns, FL_init(@), t)]]

\* what the last operation was: its handler, the node whose entry it used
\* (NoNode when it used none), whether it returned (ok) or raised, and
\* whether it invoked load_children (ran)
Op(op, n, ok, ran) == [op |-> op, node |-> n, ok |-> ok, ran |-> ran]

\* some FilteredList of the tree hides one of its elements
SomeHidden(ns) ==
  \E i \in Registry(ns) :
     ns[i].children.wrapped /\ Len(ns[i].children.data) < Len(ns[i].children.original)


\* after IamBrowser.compose and IamTree.on_mount: an empty search box and
\* the root holding one node per profile that is not ignored
Init ==
  /\ nodes = load_profiles([[i \in NodeIds |-> Free] EXCEPT ![1] = NewNode("none", <<>>, <<>>, NoDoc)],
                           available_profiles, IGNORE_PROFILES)
  /\ text = <<>>
  /\ remote \in RemoteStates
  /\ flist = PlainList(<<>>)
  /\ lastOp = Op("mount", NoNode, TRUE, FALSE)
  /\ calls = <<>>
  /\ emitted = <<>>

\* the registry has room for the children that load_children of n adds
\* when its step k raises
Room(ns, steps, k) ==
  Adds(IF k = 0 THEN steps ELSE SubSeq(steps, 1, k - 1))
    <= Cardinality(DOMAIN ns \ Registry(ns))

Fits(ns, rem, n, k) == Room(ns, Steps(rem, ns[n]), k)

\* the tree once entry.load(event.node) has had the outcome r
Expanded(n, r) ==
  /\ nodes' = r.nodes
  /\ calls' = r.calls
  /\ lastOp' = Op("expand", n, r.ok, r.ran)

\* IamTree.on_tree_node_expanded (tree.py:206-211); k is the step of
\* load_children that raises, 0 when none does
on_tree_node_expanded(n, k) ==
  /\ n \in Ids
  /\ IF nodes[n].kind = "none"
       THEN /\ k = 0
            /\ UNCHANGED nodes
            /\ calls' = <<>>
            /\ lastOp' = Op("expand", n, TRUE, FALSE)
       ELSE /\ k \in (IF nodes[n].is_loaded THEN {0} ELSE FailPoints(remote, nodes[n]))
            /\ nodes[n].is_loaded \/ Fits(nodes, remote, n, k)
            /\ Expanded(n, load(nodes, remote, n, FALSE, k))
  /\ emitted' = <<>>
  /\ UNCHANGED <<text, remote, flist>>

\* a collapse that evicts what the node has loaded
Collapse_evict(n) ==
  /\ n \in Ids
  /\ nodes[n].is_loaded
  /\ nodes' = Invalidate(nodes, n)
  /\ lastOp' = Op("collapse", NoNode, TRUE, FALSE)
  /\ calls' = <<>>
  /\ emitted' = <<>>
  /\ UNCHANGED <<text, remote, flist>>

\* collapsing a node that an expand or a reload has loaded: IamTree handles
\* no NodeCollapsed message, so nothing of the tree model changes
Collapse(n) ==
  /\ n \in Ids
  /\ nodes[n].is_loaded
  /\ UNCHANGED nodes
  /\ lastOp' = Op("collapse", NoNode, TRUE, FALSE)
  /\ calls' = <<>>
  /\ emitted' = <<>>
  /\ UNCHANGED <<text, remote, flist>>

\* IamAttachedPolicyEntry.policy_document (tree.py:97-101), a
\* cached_property: the node table after the access, the value, the calls
policy_document(ns, rem, n, fails) ==
  IF ns[n].policy_document # NoDoc
    THEN [nodes |-> ns, ok |-> TRUE, value |-> ns[n].policy_document, calls |-> <<>>]
  ELSE IF fails
    THEN [nodes |-> ns, ok |-> FALSE, value |-> NoDoc,
          calls |-> <<[api |-> "get_document", target |-> ns[n].name]>>]
    ELSE [nodes |-> [ns EXCEPT ![n].policy_document = Dumps(rem.version),
                               ![n].fetches = IF @ < 2 THEN @ + 1 ELSE @],
          ok |-> TRUE, value |-> Dumps(rem.version),
          calls |-> <<[api |-> "get_document", target |-> ns[n].name]>>]

\* IamTree.PolicySelected.__init__ (tree.py:189-193)
PolicySelected(name, document) == [name |-> name, document |-> document]

\* emit_no_wait(PolicySelected(self, entry)) with d the outcome of reading
\* entry.policy_document: nothing is emitted when the read has raised
Selected(n, fails, d) ==
  /\ fails => ~d.ok
  /\ nodes' = d.nodes
  /\ calls' = d.calls
  /\ emitted' = IF d.ok THEN <<PolicySelected(nodes[n].name, d.value)>> ELSE <<>>
  /\ lastOp' = Op("select", n, d.ok, FALSE)

\* IamTree.on_tree_node_selected (tree.py:213-218); fails: the remote
\* fetch of the document, when one is made, raises
on_tree_node_selected(n, fails) ==
  /\ n \in Ids
  /\ IF ~IsPolicy(nodes[n].kind)
       THEN /\ ~fails
            /\ UNCHANGED nodes
            /\ calls' = <<>>
            /\ emitted' = <<>>
            /\ lastOp' = Op("select", NoNode, TRUE, FALSE)
       ELSE Selected(n, fails, policy_document(nodes, remote, n, fails))
  /\ UNCHANGED <<text, remote, flist>>

\* IamBrowser.on_input_changed (app.py:61-63): t is the search box's new
\* value.  The operation is recorded as "filter_again" when it re-wraps a
\* FilteredList that hides something.
on_input_changed(t) ==
  /\ text' = t
  /\ nodes' = filter_node(nodes, t)
  /\ calls' = <<>>
  /\ emitted' = <<>>
  /\ lastOp' = Op(IF SomeHidden(nodes) THEN "filter_again" ELSE "filter", NoNode, TRUE, FALSE)
  /\ UNCHANGED <<remote, flist>>

\* action_reload without its `# refilter`
refilter_skip(ns, value) == ns

\* the `# refilter` of action_reload (app.py:89-90)
refilter(ns, value) == filter_node(ns, value)

\* the tree once the forced load of action_reload has had the outcome r:
\* the `# refilter` runs when the load has returned
Reloaded(c, r) ==
  /\ nodes' = IF r.ok THEN refilter(r.nodes, text) ELSE r.nodes
  /\ calls' = r.calls
  /\ lastOp' = Op("reload", c, r.ok, r.ran)

\* action_reload running its `# refilter` before the test of the cursor
action_reload_refilters(c, k) ==
  /\ c \in Ids \cup {NoNode}
  /\ IF c = NoNode \/ nodes[c].kind = "none"
       THEN /\ k = 0
            /\ nodes' = refilter(nodes, text)
            /\ calls' = <<>>
            /\ lastOp' = Op("reload", c, TRUE, FALSE)
       ELSE /\ k \in FailPoints(remote, nodes[c])
            /\ Fits(Invalidate(nodes, c), remote, c, k)
            /\ Reloaded(c, load(nodes, remote, c, TRUE, k))
  /\ emitted' = <<>>
  /\ UNCHANGED <<text, remote, flist>>

\* IamBrowser.action_reload (app.py:84-90); c is tree_view.cursor_node
action_reload(c, k) ==
  /\ c \in Ids \cup {NoNode}
  /\ IF c = NoNode \/ nodes[c].kind = "none"
       THEN /\ k = 0
            /\ UNCHANGED nodes
            /\ calls' = <<>>
            /\ lastOp' = Op("reload", c, TRUE, FALSE)
       ELSE /\ k \in FailPoints(remote, nodes[c])
            /\ Fits(Invalidate(nodes, c), remote, c, k)
            /\ Reloaded(c, load(nodes, remote, c, TRUE, k))
  /\ emitted' = <<>>
  /\ UNCHANGED <<text, remote, flist>>

\* the remote account changes between two operations
RemoteChange ==
  /\ remote' \in RemoteStates \ {remote}
  /\ lastOp' = Op("remote", NoNode, TRUE, FALSE)
  /\ calls' = <<>>
  /\ emitted' = <<>>
  /\ UNCHANGED <<nodes, text, flist>>

Next ==
  \/ \E n \in Ids : \E k \in FailPoints(remote, nodes[n]) : on_tree_node_expanded(n, k)
  \/ \E n \in Ids : Collapse(n)
  \/ \E n \in Ids, fails \in BOOLEAN : on_tree_node_selected(n, fails)
  \/ \E t \in Texts : on_input_changed(t)
  \/ \E c \in Ids : \E k \in FailPoints(remote, nodes[c]) : action_reload(c, k)
  \/ action_reload(NoNode, 0)
  \/ RemoteChange

Spec == Init /\ [][Next]_vars

----------------------------------------------------------------------------
(* A FilteredList on its own: every sequence of constructions, filter,     *)
(* refilter and append, over the nodes of a fixed table.                   *)

FLNodes ==
  [i \in NodeIds |->
     CASE i = 1 -> NewNode("none", <<>>, <<>>, NoDoc)
       [] i = 2 -> SectionEntry(nUsers, nProd)
       [] i = 3 -> IamUserEntry(nAlice, nProd)
       [] i = 4 -> IamInlinePolicyEntry([name |-> nA, document |-> <<>>], nProd)
       [] i = 5 -> IamAttachedPolicyEntry(nR, nProd)
       [] OTHER -> Free]

FLItems == 1..5

\* the plain sequences a FilteredList is constructed from
FLSeqs == UNION {[1..m -> FLItems] : m \in 0..(MaxLen - 1)}

InitFL ==
  /\ nodes = FLNodes
  /\ text = <<>>
  /\ remote = RemoteA
  /\ flist \in {PlainList(s) : s \in FLSeqs}
  /\ lastOp = Op("mount", NoNode, TRUE, FALSE)
  /\ calls = <<>>
  /\ emitted = <<>>

\* FilteredList(original) for whatever flist is: a list or a FilteredList
FLConstruct ==
  /\ flist' = FL_init(flist)
  /\ lastOp' = Op("construct", NoNode, TRUE, FALSE)
  /\ UNCHANGED <<nodes, text, remote, calls, emitted>>

FLFilter(t) ==
  /\ flist.wrapped
  /\ flist' = FL_filter(nodes, flist, t)
  /\ lastOp' = Op("filter", NoNode, TRUE, FALSE)
  /\ UNCHANGED <<nodes, text, remote, calls, emitted>>

FLRefilter ==
  /\ flist.wrapped
  /\ flist' = FL_refilter(nodes, flist)
  /\ lastOp' = Op("refilter", NoNode, TRUE, FALSE)
  /\ UNCHANGED <<nodes, text, remote, calls, emitted>>

FLAppend(item) ==
  /\ flist.wrapped
  /\ Len(flist.original) < MaxLen
  /\ flist' = FL_append(nodes, flist, item)
  /\ lastOp' = Op("append", item, TRUE, FALSE)
  /\ UNCHANGED <<nodes, text, remote, calls, emitted>>

NextFL ==
  \/ FLConstruct
  \/ \E t \in Texts : FLFilter(t)
  \/ FLRefilter
  \/ \E item \in FLItems : FLAppend(item)

SpecFL == InitFL /\ [][NextFL]_vars

\* C4: the visible contents of a FilteredList are its original filtered by
\* the current predicate when one is set, and its original otherwise
C4_VisibleIsFilteredOriginal ==
  flist.wrapped =>
    flist.data = IF flist.pred # NoText
                   THEN Filtered(nodes, flist.original, flist.pred)
                   ELSE flist.original

----------------------------------------------------------------------------
(* Properties of the tree                                                  *)

IsExpand(op) == op.op = "expand"
IsFilter(op) == op.op \in {"filter", "filter_again"}

\* the children of node n, hidden ones included, as (kind, name) pairs
ChildEntries(ns, n) ==
  [i \in 1..Len(Complete(ns[n].children)) |->
     <<ns[Complete(ns[n].children)[i]].kind, ns[Complete(ns[n].children)[i]].name>>]

\* C1: once a load of a node has completed and no forced reload has
\* followed, a further load(node) without force returns without fetching
\* anything, leaves the node's children and is_loaded as they are, and
\* is_loaded is true before and after it; load_children has then completed
\* exactly once since the last invalidation
C1_SecondLoadIsNoOp ==
  [][(IsExpand(lastOp') /\ nodes[lastOp'.node].kind # "none" /\ nodes[lastOp'.node].runs >= 1)
       => /\ nodes[lastOp'.node].is_loaded
          /\ lastOp'.ok /\ ~lastOp'.ran
          /\ calls' = <<>>
          /\ nodes'[lastOp'.node].children = nodes[lastOp'.node].children
          /\ nodes'[lastOp'.node].is_loaded
          /\ nodes'[lastOp'.node].runs = 1]_vars

C1_Witness ==
  /\ IsExpand(lastOp) /\ lastOp.ok /\ ~lastOp.ran
  /\ nodes[lastOp.node].kind \in {"section", "user"}
  /\ nodes[lastOp.node].runs = 1
  /\ nodes[lastOp.node].is_loaded
  /\ Len(Complete(nodes[lastOp.node].children)) > 0
  /\ calls = <<>>

\* what load(node) adds to a new, unloaded node holding the entry of n
FreshLoad(ns, rem, n) ==
  LET blank == [[i \in NodeIds |-> Free] EXCEPT
                  ![1] = [ns[n] EXCEPT !.children = PlainList(<<>>), !.is_loaded = FALSE,
                                       !.added = <<>>, !.runs = 0, !.fetches = 0]]
  IN  ChildEntries(load(blank, rem, 1, FALSE, 0).nodes, 1)

\* C2: a forced load always invokes load_children, whatever is_loaded was,
\* (and so lists the node's children remotely again); when it returns, the
\* node's children are, by kind and name and in order, those a first load
\* of a new node makes from the same remote state, all of them new
C2_ForcedReloadIsFreshLoad ==
  (lastOp.op = "reload" /\ lastOp.node # NoNode /\ nodes[lastOp.node].kind # "none")
    => /\ lastOp.ran
       /\ nodes[lastOp.node].kind \in {"section", "user", "role"} => calls # <<>>
       /\ lastOp.ok =>
            /\ ChildEntries(nodes, lastOp.node) = FreshLoad(nodes, remote, lastOp.node)
            /\ \A i \in 1..Len(Complete(nodes[lastOp.node].children)) :
                 LET c == nodes[Complete(nodes[lastOp.node].children)[i]] IN
                 ~c.is_loaded /\ Complete(c.children) = <<>>

C2_Witness ==
  /\ lastOp.op = "reload" /\ lastOp.ok /\ lastOp.ran
  /\ nodes[lastOp.node].kind = "user"
  /\ Len(Complete(nodes[lastOp.node].children)) = 2
  /\ calls # <<>>

\* C3: whatever filter texts have been applied, the collection of every
\* node holds all the children added to the node, in the order they were
\* added, and after filtering with the empty text all of them are visible
C3_RewrapKeepsOriginal ==
  \A n \in Registry(nodes) :
     /\ Complete(nodes[n].children) = nodes[n].added
     /\ (IsFilter(lastOp) /\ text = <<>>) => nodes[n].children.data = nodes[n].added

C3_Witness ==
  /\ lastOp.op = "filter_again" /\ text = <<>>
  /\ \E n \in Registry(nodes) :
       nodes[n].children.wrapped /\ Len(nodes[n].children.data) = 2

\* the kinds of entry that take part in text filtering
FilterableKinds == {"user", "role", "inline", "attached"}

\* t occurs in n as a contiguous run of characters
IsContiguousIn(t, n) ==
  \E i \in 1..(Len(n) + 1) : \E j \in (i - 1)..Len(n) : SubSeq(n, i, j) = t

\* child c is among the visible children of node p
Visible(ns, p, c) ==
  \E j \in 1..Len(ns[p].children.data) : ns[p].children.data[j] = c

\* C5: right after filter_node(t), a filterable child of any node is
\* visible iff t is empty or occurs contiguously in the child's name
C5_VisibleIffSubstring ==
  IsFilter(lastOp) =>
    \A p \in Registry(nodes) :
      \A i \in 1..Len(nodes[p].added) :
        LET c == nodes[p].added[i] IN
        nodes[c].kind \in FilterableKinds =>
          (Visible(nodes, p, c) <=> (text = <<>> \/ IsContiguousIn(text, nodes[c].name)))

C5_Witness ==
  /\ IsFilter(lastOp) /\ text # <<>>
  /\ \E p \in Registry(nodes) :
       /\ Len(nodes[p].added) = 2
       /\ Visible(nodes, p, nodes[p].added[1])
       /\ ~Visible(nodes, p, nodes[p].added[2])
       /\ nodes[nodes[p].added[2]].kind = "attached"

\* C6: in every state, every child that is a profile or a section, or has
\* no entry, is among the visible children of its parent
C6_NonFilterableVisible ==
  \A p \in Registry(nodes) :
    \A i \in 1..Len(Complete(nodes[p].children)) :
      LET c == Complete(nodes[p].children)[i] IN
      nodes[c].kind \notin FilterableKinds => Visible(nodes, p, c)

C6_Witness ==
  /\ lastOp.op = "reload" /\ lastOp.ok /\ text # <<>>
  /\ lastOp.node # NoNode
  /\ nodes[lastOp.node].kind = "profile"
  /\ Len(nodes[lastOp.node].children.data) = 2
  /\ \A j \in 1..2 :
       ~IsContiguousIn(text, nodes[nodes[lastOp.node].children.data[j]].name)

PolicyKinds == {"inline", "attached"}

\* what a select must have emitted for the policy node the last
\* operation used: one event with the entry's name and its document, the
\* document just fetched when a fetch was made
OneEvent ==
  /\ Len(emitted) = 1
  /\ emitted[1].name = nodes[lastOp.node].name
  /\ emitted[1].document = nodes[lastOp.node].policy_document
  /\ emitted[1].document # NoDoc
  /\ calls # <<>> => emitted[1].document = Dumps(remote.version)

\* C7 as stated: a select of a node that is not a policy emits nothing, a
\* select of a policy node emits exactly one event with the entry's name
\* and document
C7_SelectEmitsOne ==
  lastOp.op = "select" =>
    /\ emitted # <<>> => (lastOp.node # NoNode /\ nodes[lastOp.node].kind \in PolicyKinds)
    /\ lastOp.node # NoNode => OneEvent

\* C7 amended: a select of a policy node emits exactly one such event when
\* the access to the document returns, and none when its fetch raises
C7_SelectEmitsOneUnlessFetchRaises ==
  lastOp.op = "select" =>
    /\ emitted # <<>> => (lastOp.node # NoNode /\ nodes[lastOp.node].kind \in PolicyKinds)
    /\ (lastOp.node # NoNode /\ lastOp.ok) => OneEvent
    /\ ~lastOp.ok => (emitted = <<>> /\ nodes[lastOp.node].kind = "attached" /\ calls # <<>>)

C7_Witness ==
  /\ lastOp.op = "select" /\ lastOp.ok
  /\ lastOp.node # NoNode
  /\ nodes[lastOp.node].kind = "attached"
  /\ calls # <<>>
  /\ Len(emitted) = 1

\* op was a forced reload of a node with an entry of the node table ns,
\* and it returned
ReloadedOk(ns, op) ==
  /\ op.op = "reload" /\ op.ok
  /\ op.node # NoNode
  /\ ns[op.node].kind # "none"

\* the (kind, name) pairs that the text t leaves visible
ShownEntries(entries, t) ==
  LET Shown(e) == e[1] \notin FilterableKinds \/ IsContiguousIn(t, e[2])
  IN  SelectSeq(entries, Shown)

VisibleEntries(ns, n) ==
  [i \in 1..Len(ns[n].children.data) |->
     <<ns[ns[n].children.data[i]].kind, ns[ns[n].children.data[i]].name>>]

\* after a reload op that returned, with the search box holding t: the
\* visible children are the fetched ones that t lets through, in fetch
\* order, and the collection keeps all the fetched ones
ReloadFiltered(ns, rem, t, op) ==
  ReloadedOk(ns, op) =>
    LET fresh == FreshLoad(ns, rem, op.node) IN
    /\ ns[op.node].children.wrapped
    /\ ChildEntries(ns, op.node) = fresh
    /\ VisibleEntries(ns, op.node) = ShownEntries(fresh, t)

\* C8: after a reload that returns, the visible children of the reloaded
\* node are the freshly fetched ones that are not filterable or whose
\* name contains the text of the search box, the hidden ones are kept, and
\* a filter_node("") that follows the reload shows every fetched child
C8_ReloadRespectsFilter ==
  [][/\ ReloadFiltered(nodes', remote', text', lastOp')
     /\ (ReloadedOk(nodes, lastOp) /\ IsFilter(lastOp') /\ text' = <<>>)
          => nodes'[lastOp.node].children.data = nodes[lastOp.node].children.original]_vars

C8_Witness ==
  /\ ReloadedOk(nodes, lastOp) /\ text # <<>>
  /\ nodes[lastOp.node].kind = "user"
  /\ Len(nodes[lastOp.node].children.data) = 1
  /\ Len(nodes[lastOp.node].children.original) = 2

\* C9 as stated: the document of an attached policy is fetched at most
\* once between the entry's construction and its first forced reload and
\* between two forced reloads
C9_DocumentFetchedOncePerCycle ==
  \A n \in Registry(nodes) :
    nodes[n].kind = "attached" => nodes[n].fetches <= 1

\* C10: a step that is not a forced reload leaves every loaded node loaded
\* and with the same children, hidden ones included, and an expand of a
\* loaded node makes no remote call
C10_OnlyReloadDiscards ==
  [][lastOp'.op # "reload" =>
       /\ \A n \in Registry(nodes) :
            nodes[n].is_loaded =>
              /\ nodes'[n].is_loaded
              /\ Complete(nodes'[n].children) = Complete(nodes[n].children)
       /\ (IsExpand(lastOp') /\ nodes[lastOp'.node].is_loaded) => calls' = <<>>]_vars

C10_Witness ==
  /\ IsExpand(lastOp) /\ ~lastOp.ran /\ calls = <<>>
  /\ text # <<>>
  /\ nodes[lastOp.node].is_loaded
  /\ Len(nodes[lastOp.node].children.data) < Len(Complete(nodes[lastOp.node].children))

\* the last operation called Entry.load on the entry of a node
IsLoad(op) ==
  /\ op.op \in {"expand", "reload"}
  /\ op.node # NoNode
  /\ nodes[op.node].kind \notin {"none", "free"}

\* C11: in every state an entry's is_loaded is true iff load_children has
\* returned for it since it was created or last force-loaded, and a load
\* that raises (a remote call failed) has run load_children and leaves
\* is_loaded false
C11_LoadedIffChildrenLoaded ==
  /\ \A n \in Registry(nodes) :
       nodes[n].kind # "none" => (nodes[n].is_loaded <=> nodes[n].runs >= 1)
  /\ (IsLoad(lastOp) /\ ~lastOp.ok) =>
       /\ lastOp.ran
       /\ ~nodes[lastOp.node].is_loaded
       /\ nodes[lastOp.node].runs = 0

C11_Witness ==
  /\ lastOp.op = "reload" /\ ~lastOp.ok /\ lastOp.ran
  /\ lastOp.node # NoNode
  /\ nodes[lastOp.node].kind = "user"
  /\ calls # <<>> /\ calls[Len(calls)].api = "list_attached"
  /\ ~nodes[lastOp.node].is_loaded
  /\ \E m \in Registry(nodes) : nodes[m].kind = "section" /\ nodes[m].is_loaded

\* C12: an action_reload with no cursor node, or with the cursor on a
\* node without an entry (the root), returns without raising, makes no
\* remote call and changes no node, children collection, is_loaded flag
\* or filter text
C12_InvalidReloadIsNoOp ==
  [][(lastOp'.op = "reload" /\ (lastOp'.node = NoNode \/ nodes[lastOp'.node].kind = "none"))
       => /\ lastOp'.ok /\ ~lastOp'.ran
          /\ calls' = <<>>
          /\ emitted' = <<>>
          /\ nodes' = nodes
          /\ text' = text]_vars

C12_Witness ==
  /\ lastOp.op = "reload" /\ lastOp.ok
  /\ lastOp.node # NoNode
  /\ nodes[lastOp.node].kind = "none"
  /\ text # <<>>
  /\ \E m \in Registry(nodes) :
       /\ nodes[m].is_loaded
       /\ ~nodes[m].children.wrapped
       /\ Len(nodes[m].children.data) > 0

\* a call that creates the session of profile p is among cs
CreatesSession(cs, p) ==
  \E i \in 1..Len(cs) : cs[i].api = "Session" /\ cs[i].target = p

\* C13 as stated: the session of a profile is created at most once; a
\* loaded profile entry has created its session, so no step creates the
\* session of a profile whose entry is loaded
C13_SessionCreatedOnce ==
  [][\A n \in Registry(nodes) :
       (nodes[n].kind = "profile" /\ nodes[n].is_loaded)
         => ~CreatesSession(calls', nodes[n].name)]_vars

\* the leaves a principal named name must get from the remote state rem:
\* (kind, name, document) of one leaf per inline policy of the listing,
\* then of one per attached policy
ExpectedLeaves(rem, name) ==
  [i \in 1..Len(rem.inline[name]) |->
     <<"inline", rem.inline[name][i].name, Dumps(rem.inline[name][i].document)>>]
  \o [i \in 1..Len(rem.attached[name]) |-> <<"attached", rem.attached[name][i], NoDoc>>]

\* (kind, name, document) of the nodes ids, which are leaves without
\* children
Leaves(ns, ids) ==
  [i \in 1..Len(ids) |-> <<ns[ids[i]].kind, ns[ids[i]].name, ns[ids[i]].policy_document>>]

\* C14: a load of a user or role entry that returns after running
\* load_children has added to the node exactly one leaf per listed policy,
\* the inline ones first and then the attached ones, each in listing
\* order, and every inline leaf holds its serialised document
C14_PoliciesInlineThenAttached ==
  [][(/\ lastOp'.op \in {"expand", "reload"}
      /\ lastOp'.node # NoNode
      /\ nodes'[lastOp'.node].kind \in {"user", "role"}
      /\ lastOp'.ok /\ lastOp'.ran)
       => LET n == lastOp'.node
              before == IF lastOp'.op = "reload" THEN 0 ELSE Len(nodes[n].added)
              new == SubSeq(nodes'[n].added, before + 1, Len(nodes'[n].added))
          IN  /\ Leaves(nodes', new) = ExpectedLeaves(remote, nodes'[n].name)
              /\ \A i \in 1..Len(new) :
                   /\ Complete(nodes'[new[i]].children) = <<>>
                   /\ nodes'[new[i]].kind = "inline" => nodes'[new[i]].policy_document # NoDoc]_vars

C14_Witness ==
  /\ lastOp.op = "expand" /\ lastOp.ok /\ lastOp.ran
  /\ lastOp.node # NoNode
  /\ nodes[lastOp.node].kind = "user"
  /\ Len(nodes[lastOp.node].added) = 2
  /\ nodes[nodes[lastOp.node].added[1]].kind = "inline"
  /\ nodes[nodes[lastOp.node].added[1]].policy_document = Dumps(<<"Version">>)
  /\ nodes[nodes[lastOp.node].added[2]].kind = "attached"

\* the listing call that the section named name makes
ListingOf(name) == IF name = nUsers THEN "list_users" ELSE "list_roles"

\* C15: a load of a profile entry that runs load_children leaves the node with
\* exactly the sections "users" and "roles", in this order, unloaded and
\* without children, and calls neither list_users nor list_roles; such a
\* call is made only by a load of the section of that name that runs
\* load_children, which makes exactly that one call, and a load of a
\* section that is loaded makes none
C15_SectionsListLazily ==
  /\ (IsLoad(lastOp) /\ nodes[lastOp.node].kind = "profile" /\ lastOp.ok /\ lastOp.ran) =>
       /\ ChildEntries(nodes, lastOp.node) = << <<"section", nUsers>>, <<"section", nRoles>> >>
       /\ \A i \in 1..Len(nodes[lastOp.node].added) :
            /\ ~nodes[nodes[lastOp.node].added[i]].is_loaded
            /\ Complete(nodes[nodes[lastOp.node].added[i]].children) = <<>>
  /\ \A i \in 1..Len(calls) :
       calls[i].api \in {"list_users", "list_roles"} =>
         /\ IsLoad(lastOp) /\ lastOp.ran
         /\ nodes[lastOp.node].kind = "section"
         /\ calls[i].api = ListingOf(nodes[lastOp.node].name)
         /\ calls[i].target = nodes[lastOp.node].profile
         /\ Len(calls) = 1
  /\ (IsLoad(lastOp) /\ nodes[lastOp.node].kind = "section") =>
       IF lastOp.ran
         THEN calls = <<[api |-> ListingOf(nodes[lastOp.node].name),
                         target |-> nodes[lastOp.node].profile]>>
         ELSE calls = <<>>

C15_Witness ==
  /\ lastOp.op = "expand" /\ lastOp.ok /\ lastOp.ran
  /\ lastOp.node # NoNode
  /\ nodes[lastOp.node].kind = "profile"
  /\ calls = <<[api |-> "Session", target |-> nodes[lastOp.node].name]>>
  /\ Len(nodes[lastOp.node].added) = 2
  /\ nodes[nodes[lastOp.node].added[1]].name = nUsers
  /\ nodes[nodes[lastOp.node].added[2]].name = nRoles

\* C16 as stated: a load of an attached policy entry, forced or not,
\* returns without raising, whether or not the document was ever read,
\* and leaves the entry loaded, without children and without a cached
\* document
C16_AttachedLoadNeverRaises ==
  (IsLoad(lastOp) /\ nodes[lastOp.node].kind = "attached") =>
    /\ lastOp.ok
    /\ nodes[lastOp.node].is_loaded
    /\ nodes[lastOp.node].policy_document = NoDoc
    /\ Complete(nodes[lastOp.node].children) = <<>>

\* the children among ids that the text t lets through: those that are
\* not filterable and those whose name contains t
ShownIds(ns, ids, t) ==
  LET Shown(c) == ns[c].kind \notin FilterableKinds \/ IsContiguousIn(t, ns[c].name)
  IN  SelectSeq(ids, Shown)

\* C17 as stated: in every state, with text the value last given to
\* filter_node, the visible children of every node are exactly those of
\* its children that are not filterable or whose name contains text
C17_VisibleFollowsLastText ==
  \A p \in Registry(nodes) :
    nodes[p].children.data = ShownIds(nodes, Complete(nodes[p].children), text)

\* C18 as stated: a load without force that returns after running
\* load_children, whatever loads of the node failed before it, leaves the
\* node with the children of one load of a new node, none of them twice
C18_RetryLoadsOnce ==
  (lastOp.op = "expand" /\ IsLoad(lastOp) /\ lastOp.ok /\ lastOp.ran) =>
    ChildEntries(nodes, lastOp.node) = FreshLoad(nodes, remote, lastOp.node)

\* C19: right after filter_node(text), for every node of the registry,
\* shown in its parent or not, the visible children are those of its
\* children whose own kind is not filterable or whose own name contains
\* text; what the children or the parent of a child hold plays no part
C19_LevelsFilteredIndependently ==
  IsFilter(lastOp) =>
    \A p \in Registry(nodes) :
      /\ nodes[p].children.wrapped
      /\ nodes[p].children.original = nodes[p].added
      /\ nodes[p].children.data = ShownIds(nodes, nodes[p].added, text)

C19_Witness ==
  /\ IsFilter(lastOp) /\ text # <<>>
  /\ \E s \in Registry(nodes) : \E u \in Registry(nodes) : \E c \in Registry(nodes) :
       /\ nodes[u].kind = "user" /\ nodes[u].is_loaded
       /\ nodes[s].added = <<u>> /\ nodes[s].children.data = <<>>
       /\ ~IsContiguousIn(text, nodes[u].name)
       /\ Visible(nodes, u, c)
       /\ IsContiguousIn(text, nodes[c].name)

\* after a reload op that returned: every child of the reloaded node holds
\* an entry as its constructor leaves it (not loaded, no children, nothing
\* run or fetched, no cached document when it is an attached policy), and
\* nothing else is below the node
SubtreeFresh(ns, op) ==
  ReloadedOk(ns, op) =>
    LET cs == Complete(ns[op.node].children) IN
    /\ Subtree(ns, op.node) = {op.node} \cup {cs[i] : i \in 1..Len(cs)}
    /\ \A i \in 1..Len(cs) :
         /\ ~ns[cs[i]].is_loaded
         /\ Complete(ns[cs[i]].children) = <<>>
         /\ ns[cs[i]].runs = 0 /\ ns[cs[i]].fetches = 0
         /\ ns[cs[i]].kind = "attached" => ns[cs[i]].policy_document = NoDoc

\* C20: after a reload of a node that returns, every child of the node
\* holds a new, unloaded entry without children or cached document and no
\* older node is below the node; the next expand of a child that is a
\* section, user or role runs load_children and calls the remote API, and
\* the next select of a child that is an attached policy fetches its
\* document
C20_ReloadInvalidatesSubtree ==
  [][/\ SubtreeFresh(nodes', lastOp')
     /\ (/\ ReloadedOk(nodes, lastOp)
         /\ lastOp'.node # NoNode
         /\ \E i \in 1..Len(nodes[lastOp.node].added) : nodes[lastOp.node].added[i] = lastOp'.node)
          => /\ (lastOp'.op = "expand" /\ nodes[lastOp'.node].kind \in {"section", "user", "role"})
                  => (lastOp'.ran /\ calls' # <<>>)
             /\ (lastOp'.op = "select" /\ nodes[lastOp'.node].kind = "attached")
                  => (calls' # <<>> /\ calls'[1].target = nodes[lastOp'.node].name)]_vars

C20_Witness ==
  /\ ReloadedOk(nodes, lastOp) /\ lastOp.ran
  /\ text = <<>>
  /\ nodes[lastOp.node].kind = "section"
  /\ Len(nodes[lastOp.node].added) = 1
  /\ nodes[nodes[lastOp.node].added[1]].kind = "user"
  /\ ~nodes[nodes[lastOp.node].added[1]].is_loaded

====
